---- MODULE Spec2Model ----
(***************************************************************************)
(* graphql-minify: the outer tokenizer (src/src/lexer.rs), the block-string *)
(* scanner, dedent and re-printer (src/src/block_string.rs) and the        *)
(* minifier loop with its spacing rule (src/src/minify.rs).                *)
(*                                                                         *)
(* Text is a sequence of one-character strings.  Every character of the    *)
(* model is ASCII, so a byte offset and a character offset coincide.       *)
(* Offsets are zero-based as in the code: the character at offset p of s   *)
(* is s[p + 1].                                                            *)
(***************************************************************************)
EXTENDS Integers, Sequences, FiniteSets, TLC

VARIABLES
    input,       \* the text handed to minify (value.as_ref())
    pos,         \* the outer lexer's cursor (token_end)
    result,      \* the output buffer
    last_token,  \* kind of the previous token, or "None"
    pc,          \* "lex": in the loop; "ok" / "err": minify has returned
    err,         \* the error returned, or NoError
    toks,        \* the tokens the outer lexer has yielded in this call
    blk,         \* the block-string scans of this call, in order
    pass,        \* 1: minify(D); 2: minify(minify(D))
    first        \* what call 1 returned and yielded, kept for call 2

vars == <<input, pos, result, last_token, pc, err, toks, blk, pass, first>>

\* ---------------------------------------------------------------- characters

LF == "\n"
CR == "\r"
TAB == "\t"
SP == " "
QUOTE == "\""
BACKSLASH == "\\"

\* [0-9] and, of [a-zA-Z_], the lower-case letters and the underscore
Digits == {"0", "1", "2", "3", "4", "5", "6", "7", "8", "9"}
Letters ==
    {"a", "b", "c", "d", "e", "f", "g", "h", "i", "j", "k", "l", "m", "n", "o",
     "p", "q", "r", "s", "t", "u", "v", "w", "x", "y", "z", "_"}

\* \s of the skip pattern, lexer.rs:14
Whitespace == {SP, TAB, LF, CR}

\* is_gql_whitespace, block_string.rs:96-98
is_gql_whitespace(ch) == ch = SP \/ ch = TAB

TripleQuoteText == <<QUOTE, QUOTE, QUOTE>>

\* the character at zero-based offset p of s, or "" past the end
At(s, p) == IF p < Len(s) THEN s[p + 1] ELSE ""

\* s[a..b) with zero-based offsets
Slice(s, a, b) == SubSeq(s, a + 1, b)

StartsWithAt(s, p, t) == p + Len(t) <= Len(s) /\ Slice(s, p, p + Len(t)) = t

EndsWith(s, t) == Len(t) <= Len(s) /\ SubSeq(s, Len(s) - Len(t) + 1, Len(s)) = t

\* ------------------------------------------------------- outer lexer (logos)

\* the ignored characters without the comma
IgnoredCharsNoComma == Whitespace

\* [\s,] of the skip pattern, lexer.rs:14
IgnoredChars == Whitespace \cup {","}

\* #[^\r\n]* : the end of a comment that starts at p
RECURSIVE CommentEnd(_, _)
CommentEnd(s, p) ==
    IF p < Len(s) /\ s[p + 1] \notin {CR, LF} THEN CommentEnd(s, p + 1) ELSE p

\* #[logos(skip r"([\s,]+|#[^\r\n]*)+")], lexer.rs:14
RECURSIVE SkipIgnored(_, _)
SkipIgnored(s, p) ==
    IF p >= Len(s) THEN p
    ELSE IF s[p + 1] \in IgnoredChars THEN SkipIgnored(s, p + 1)
    ELSE IF s[p + 1] = "#" THEN SkipIgnored(s, CommentEnd(s, p + 1))
    ELSE p

\* the length of the run [0-9]* at p
RECURSIVE DigitRun(_, _)
DigitRun(s, p) == IF At(s, p) \in Digits THEN 1 + DigitRun(s, p + 1) ELSE 0

\* the length of the run [a-zA-Z0-9_]* at p
RECURSIVE NameRun(_, _)
NameRun(s, p) ==
    IF At(s, p) \in Letters \cup Digits THEN 1 + NameRun(s, p + 1) ELSE 0

\* [a-zA-Z_][a-zA-Z0-9_]* at p: its length, 0 when it does not match
NameLen(s, p) == IF At(s, p) \in Letters THEN NameRun(s, p) ELSE 0

\* -?[0-9]+ , lexer.rs:65
IntLen(s, p) ==
    LET m == IF At(s, p) = "-" THEN 1 ELSE 0
        d == DigitRun(s, p + m)
    IN  IF d = 0 THEN 0 ELSE m + d

\* -?[0-9]+\.[0-9]+(e-?[0-9]+)? , lexer.rs:68
FloatLen(s, p) ==
    LET i == IntLen(s, p)
        f == DigitRun(s, p + i + 1)
        base == i + 1 + f
        m == IF At(s, p + base + 1) = "-" THEN 1 ELSE 0
        x == DigitRun(s, p + base + 1 + m)
    IN  IF i = 0 \/ At(s, p + i) # "." \/ f = 0 THEN 0
        ELSE IF At(s, p + base) = "e" /\ x > 0 THEN base + 1 + m + x
        ELSE base

\* "([^"\\]*(\\.[^"\\]*)*)" , lexer.rs:59: the offset after the closing quote of
\* the literal whose body is scanned from q, or 0 when the pattern does not
\* match.  The dot of \\. is the regex dot: any character but a line feed.
RECURSIVE StringBodyEnd(_, _)
StringBodyEnd(s, q) ==
    IF q >= Len(s) THEN 0
    ELSE IF s[q + 1] = QUOTE THEN q + 1
    ELSE IF s[q + 1] = BACKSLASH
         THEN IF q + 1 < Len(s) /\ s[q + 2] # LF THEN StringBodyEnd(s, q + 2) ELSE 0
    ELSE StringBodyEnd(s, q + 1)

StringLen(s, p) ==
    LET e == StringBodyEnd(s, p + 1)
    IN  IF At(s, p) = QUOTE /\ e > 0 THEN e - p ELSE 0

\* #[token(..)] of the one-character punctuators, lexer.rs:17-51
PunctKind(c) ==
    CASE c = "{" -> "BraceOpen"
      [] c = "}" -> "BraceClose"
      [] c = "(" -> "ParenOpen"
      [] c = ")" -> "ParenClose"
      [] c = "[" -> "BracketOpen"
      [] c = "]" -> "BracketClose"
      [] c = ":" -> "Colon"
      [] c = "=" -> "Equals"
      [] c = "!" -> "Exclamation"
      [] c = "?" -> "Question"
      [] c = "&" -> "Ampersand"
      [] c = "|" -> "Pipe"
      [] OTHER -> "None"

NoError == [kind |-> "NoError", off |-> 0]
UnknownToken == [kind |-> "UnknownToken", off |-> 0]
UnterminatedString(k) == [kind |-> "UnterminatedString", off |-> k]

Tok(k, a, b) == [kind |-> k, start |-> a, end |-> b, err |-> NoError]
ErrItem(e, a) == [kind |-> "Err", start |-> a, end |-> a, err |-> e]

\* the callback of Token::String reporting the end of the span, not its start
StringCallbackSpanEnd(s, p, n) ==
    IF \E i \in p + 1 .. p + n : s[i] \in {LF, CR}
    THEN ErrItem(UnterminatedString(p + n), p)
    ELSE Tok("String", p, p + n)

\* the callback of Token::String, lexer.rs:59-62: lexer.span().start is the
\* offset of the opening quote in the whole source
StringCallback(s, p, n) ==
    IF \E i \in p + 1 .. p + n : s[i] \in {LF, CR}
    THEN ErrItem(UnterminatedString(p), p)
    ELSE Tok("String", p, p + n)

TrueText == <<"t", "r", "u", "e">>
FalseText == <<"f", "a", "l", "s", "e">>

\* The token matched at p (p is not an ignored character and not the end):
\* the longest match among the patterns of lexer.rs:17-81.
MatchAt(s, p) ==
    LET c == s[p + 1]
        n == NameLen(s, p)
        v == NameLen(s, p + 1)
    IN  CASE PunctKind(c) # "None" -> Tok(PunctKind(c), p, p + 1)
          [] c = "." ->
               IF StartsWithAt(s, p, <<".", ".", ".">>)
               THEN Tok("Ellipsis", p, p + 3) ELSE ErrItem(UnknownToken, p)
          [] c = QUOTE ->
               IF StartsWithAt(s, p, TripleQuoteText)
               THEN Tok("BlockStringDelimiter", p, p + 3)
               ELSE IF StringLen(s, p) > 0 THEN StringCallback(s, p, StringLen(s, p))
               ELSE ErrItem(UnknownToken, p)
          [] c = "-" \/ c \in Digits ->
               IF FloatLen(s, p) > 0 THEN Tok("Float", p, p + FloatLen(s, p))
               ELSE IF IntLen(s, p) > 0 THEN Tok("Int", p, p + IntLen(s, p))
               ELSE ErrItem(UnknownToken, p)
          [] c = "@" ->
               IF v > 0 THEN Tok("Directive", p, p + 1 + v) ELSE ErrItem(UnknownToken, p)
          [] c = "$" ->
               IF v > 0 THEN Tok("Variable", p, p + 1 + v) ELSE ErrItem(UnknownToken, p)
          [] n > 0 ->
               IF Slice(s, p, p + n) \in {TrueText, FalseText}
               THEN Tok("Bool", p, p + n) ELSE Tok("Identifier", p, p + n)
          [] OTHER -> ErrItem(UnknownToken, p)

\* lexer.next(), minify.rs:44: skip the ignored run, then None at the end of the
\* text, otherwise the token or the error at the cursor
LexerNext(s, p0) ==
    LET p == SkipIgnored(s, p0)
    IN  IF p >= Len(s) THEN [kind |-> "Eof", start |-> p, end |-> p, err |-> NoError]
        ELSE MatchAt(s, p)

\* ------------------------------------------- block-string lexer (logos)

\* BlockStringToken at offset q of s (q < Len(s)), block_string.rs:3-22: the
\* longest of Quote, NewLine, EscapedTripleQuote, EscapeSeq, Text, TripleQuote
RECURSIVE TextRun(_, _)
TextRun(s, q) ==
    IF q < Len(s) /\ s[q + 1] \notin {QUOTE, CR, LF, BACKSLASH}
    THEN 1 + TextRun(s, q + 1) ELSE 0

BlockStringToken(s, q) ==
    LET c == s[q + 1]
    IN  CASE c = CR -> [kind |-> "NewLine", len |-> IF At(s, q + 1) = LF THEN 2 ELSE 1]
          [] c = LF -> [kind |-> "NewLine", len |-> 1]
          [] c = BACKSLASH ->
               IF StartsWithAt(s, q + 1, TripleQuoteText)
               THEN [kind |-> "EscapedTripleQuote", len |-> 4]
               ELSE [kind |-> "EscapeSeq", len |-> 1]
          [] c = QUOTE ->
               IF StartsWithAt(s, q, TripleQuoteText)
               THEN [kind |-> "TripleQuote", len |-> 3]
               ELSE [kind |-> "Quote", len |-> 1]
          [] OTHER -> [kind |-> "Text", len |-> TextRun(s, q)]

\* the while loop of parse_block_string, lexer.rs:92-104, from offset q with
\* the lines pushed so far and the current line; end is the offset of the
\* block lexer when the loop stops
RECURSIVE ScanBlock(_, _, _, _)
ScanBlock(s, q, lines, cur) ==
    IF q >= Len(s) THEN [lines |-> lines, cur |-> cur, end |-> q, closed |-> FALSE]
    ELSE LET t == BlockStringToken(s, q)
         IN  CASE t.kind = "NewLine" -> ScanBlock(s, q + t.len, Append(lines, cur), <<>>)
               [] t.kind \in {"Text", "Quote", "EscapeSeq"} ->
                    ScanBlock(s, q + t.len, lines, cur \o Slice(s, q, q + t.len))
               [] t.kind = "EscapedTripleQuote" ->
                    ScanBlock(s, q + t.len, lines, cur \o TripleQuoteText)
               [] OTHER -> [lines |-> lines, cur |-> cur, end |-> q + t.len, closed |-> TRUE]

\* lexer.rs:86-108: the raw line sequence handed to the dedent
RawLines(s, p) ==
    LET r == ScanBlock(s, p, <<>>, <<>>)
    IN  IF r.cur # <<>> THEN Append(r.lines, r.cur) ELSE r.lines

\* the advance without the closing delimiter
BumpLenBeforeClose(s, p) ==
    LET r == ScanBlock(s, p, <<>>, <<>>)
    IN  IF r.closed THEN r.end - 3 - p ELSE r.end - p

\* lexer.rs:110: remainder.len() - block_lexer.remainder().len()
BumpLen(s, p) == ScanBlock(s, p, <<>>, <<>>).end - p

\* ------------------------------------------------------------------ dedent

\* leading_whitespace, block_string.rs:100-102
RECURSIVE leading_whitespace(_)
leading_whitespace(s) ==
    IF s # <<>> /\ is_gql_whitespace(Head(s)) THEN 1 + leading_whitespace(Tail(s)) ELSE 0

\* block_string.rs:69: the line has a character that is not a space or a tab
NonBlank(line) == leading_whitespace(line) < Len(line)

\* usize::MAX, block_string.rs:62.  Only compared, never added to: the model
\* uses the largest integer of the model checker in its place.
USIZE_MAX == 2147483647

Min(S) == CHOOSE x \in S : \A y \in S : x <= y
Max(S) == CHOOSE x \in S : \A y \in S : y <= x

\* zero-based indices of the lines that are not blank
NonBlankIdx(lines) == {i \in 0 .. Len(lines) - 1 : NonBlank(lines[i + 1])}

\* first_non_empty_line and last_non_empty_line when the loop of
\* block_string.rs:66-77 ends and a line is not blank (zero-based)
first_non_empty_line(lines) == Min(NonBlankIdx(lines))
last_non_empty_line(lines) == Max(NonBlankIdx(lines))

\* the minimum taken over the first line as well
common_indent_with_first_line(lines) ==
    LET S == {leading_whitespace(lines[i + 1]) : i \in NonBlankIdx(lines)}
    IN  IF S = {} THEN USIZE_MAX ELSE Min(S)

\* the loop of block_string.rs:66-77
common_indent(lines) ==
    LET S == {leading_whitespace(lines[i + 1]) : i \in NonBlankIdx(lines) \ {0}}
    IN  IF S = {} THEN USIZE_MAX ELSE Min(S)

\* every line is split, whatever its length
SplitsLineAlways(line, ci) == TRUE

\* the guard of block_string.rs:82: the line is split at common_indent
SplitsLine(line, ci) == Len(line) > ci

\* the line loses all its leading white space
DedentLineTrimStart(line, ci) == SubSeq(line, leading_whitespace(line) + 1, Len(line))

\* block_string.rs:82-86: split_off(common_indent) keeps the characters from
\* offset common_indent on; the line is cleared otherwise
DedentLine(line, ci) ==
    IF SplitsLine(line, ci) THEN [i \in 1 .. Len(line) - ci |-> line[i + ci]] ELSE <<>>

\* dedent_block_lines_mut, block_string.rs:61-94
dedent_block_lines_mut(lines) ==
    IF NonBlankIdx(lines) = {} THEN <<>>
    ELSE LET ci == common_indent(lines)
             start == first_non_empty_line(lines)
             end == last_non_empty_line(lines)
             cut == [j \in 1 .. Len(lines) |->
                        IF j = 1 THEN lines[1] ELSE DedentLine(lines[j], ci)]
         IN  SubSeq(cut, start + 1, end + 1)

\* ---------------------------------------------------------------- re-print

\* lines.join("\n"), lexer.rs:113
RECURSIVE Join(_)
Join(lines) ==
    IF lines = <<>> THEN <<>>
    ELSE IF Len(lines) = 1 THEN lines[1]
    ELSE lines[1] \o <<LF>> \o Join(Tail(lines))

\* str.replace(r#"""""#, r#"\""""#), block_string.rs:26: left to right, without overlap
RECURSIVE EscapeTripleQuotes(_, _)
EscapeTripleQuotes(s, p) ==
    IF p >= Len(s) THEN <<>>
    ELSE IF StartsWithAt(s, p, TripleQuoteText)
         THEN <<BACKSLASH>> \o TripleQuoteText \o EscapeTripleQuotes(s, p + 3)
    ELSE <<s[p + 1]>> \o EscapeTripleQuotes(s, p + 1)

\* str::lines(), block_string.rs:27: split at every line feed, a carriage return
\* right before it dropped; no empty last line
RECURSIVE StrLines(_, _, _, _)
StrLines(s, p, acc, cur) ==
    IF p >= Len(s) THEN (IF cur # <<>> THEN Append(acc, cur) ELSE acc)
    ELSE IF s[p + 1] = LF
         THEN StrLines(s, p + 1,
                       Append(acc, IF EndsWith(cur, <<CR>>)
                                   THEN SubSeq(cur, 1, Len(cur) - 1) ELSE cur),
                       <<>>)
    ELSE StrLines(s, p + 1, acc, Append(cur, s[p + 1]))

\* block_string.rs:29-33
force_leading_new_line(lines) ==
    Len(lines) > 1 /\ \A j \in 2 .. Len(lines) :
        lines[j] = <<>> \/ is_gql_whitespace(lines[j][1])

\* the newline is kept after a final backslash only
force_trailing_newline_slash_only(str) == EndsWith(str, <<BACKSLASH>>)

\* block_string.rs:35-38
force_trailing_newline(str) ==
    LET has_trailing_triple_quotes == EndsWith(str, <<BACKSLASH>> \o TripleQuoteText)
        has_trailing_quote == EndsWith(str, <<QUOTE>>) /\ ~has_trailing_triple_quotes
        has_trailing_slash == EndsWith(str, <<BACKSLASH>>)
    IN  has_trailing_quote \/ has_trailing_slash

\* the loop of block_string.rs:48-51
RECURSIVE EmitLines(_)
EmitLines(lines) ==
    IF lines = <<>> THEN <<>> ELSE lines[1] \o <<LF>> \o EmitLines(Tail(lines))

\* print_block_string, block_string.rs:24-59
print_block_string(in) ==
    LET str == EscapeTripleQuotes(in, 0)
        lines == StrLines(str, 0, <<>>, <<>>)
        body == TripleQuoteText
                \o (IF force_leading_new_line(lines) THEN <<LF>> ELSE <<>>)
                \o EmitLines(lines)
        kept == IF ~force_trailing_newline(str) /\ EndsWith(body, <<LF>>)
                THEN SubSeq(body, 1, Len(body) - 1) ELSE body
    IN  kept \o TripleQuoteText

\* parse_block_string, lexer.rs:85-114: the text it returns for the block
\* string whose body starts at offset p of s
parse_block_string(s, p) ==
    print_block_string(Join(dedent_block_lines_mut(RawLines(s, p))))

\* ---------------------------------------------------------------- minifier

\* is_non_punctuator, minify.rs:64-83
is_non_punctuator(k) ==
    k \notin {"BraceOpen", "BraceClose", "ParenOpen", "ParenClose", "BracketOpen",
              "BracketClose", "Colon", "Equals", "Exclamation", "Question",
              "Ellipsis", "Ampersand", "Pipe", "Variable", "Directive"}

\* needs_space_after_token, minify.rs:85-90
needs_space_after_token(k) == k \in {"Variable", "String", "Identifier", "Directive"}

\* needs_space_before_token with the ellipsis left out of the list
needs_space_before_token_no_ellipsis(k) == k \in {"Identifier", "BlockStringDelimiter"}

\* needs_space_before_token, minify.rs:92-97
needs_space_before_token(k) == k \in {"Identifier", "BlockStringDelimiter", "Ellipsis"}

\* needs_space, minify.rs:99-107
needs_space(curr, last) ==
    IF last = "None" THEN FALSE
    ELSE IF is_non_punctuator(last) THEN is_non_punctuator(curr) \/ curr = "Ellipsis"
    ELSE IF needs_space_after_token(last) THEN needs_space_before_token(curr)
    ELSE FALSE

\* minify.rs:50-52
Spacing(curr, last) == IF needs_space(curr, last) THEN <<SP>> ELSE <<>>

\* minify.rs:54-57: what the token at t appends to the output
Emitted(s, t) ==
    IF t.kind = "BlockStringDelimiter" THEN parse_block_string(s, t.end)
    ELSE Slice(s, t.start, t.end)

\* the cursor after the token: lexer.bump of lexer.rs:110 for a block string
CursorAfter(s, t) ==
    IF t.kind = "BlockStringDelimiter" THEN t.end + BumpLen(s, t.end) ELSE t.end

\* the error item replaced by the default error
ReturnedDefaultError(t) == UnknownToken

\* minify.rs:45-48: the error item is returned unchanged
ReturnedError(t) == t.err

\* the loop of minify, minify.rs:44-61, from cursor p with the output and the
\* previous token so far
RECURSIVE MinifyFrom(_, _, _, _)
MinifyFrom(s, p, res, last) ==
    LET t == LexerNext(s, p)
    IN  IF t.kind = "Eof" THEN [ok |-> TRUE, out |-> res, err |-> NoError]
        ELSE IF t.kind = "Err" THEN [ok |-> FALSE, out |-> <<>>, err |-> ReturnedError(t)]
        ELSE MinifyFrom(s, CursorAfter(s, t), res \o Spacing(t.kind, last) \o Emitted(s, t),
                        t.kind)

\* minify, minify.rs:39-62
minify(s) == MinifyFrom(s, 0, <<>>, "None")

\* ------------------------------------------------------------ state machine

\* the value of a token: its source slice, lexer.rs:63-81; for a block string
\* the dedented lines joined, lexer.rs:112-113
Literal(s, t) ==
    IF t.kind = "BlockStringDelimiter"
    THEN Join(dedent_block_lines_mut(RawLines(s, t.end)))
    ELSE Slice(s, t.start, t.end)

TokenRecord(s, t) ==
    [kind |-> t.kind, lit |-> Literal(s, t), start |-> t.start, end |-> CursorAfter(s, t)]

\* what parse_block_string sees and does at body offset p: the remainder, the
\* cursor advance, whether the closing delimiter was met, the raw lines, the
\* lines after the dedent, the text returned
ScanRecord(s, p) ==
    [body |-> p, remainder |-> Len(s) - p, bump |-> BumpLen(s, p),
     closed |-> ScanBlock(s, p, <<>>, <<>>).closed, lines |-> RawLines(s, p),
     dedented |-> dedent_block_lines_mut(RawLines(s, p)),
     printed |-> parse_block_string(s, p)]

NoFirst == [ok |-> FALSE, out |-> <<>>, toks |-> <<>>, input |-> <<>>]

\* let mut lexer / result / last_token, minify.rs:40-42
Start(s) ==
    /\ input = s
    /\ pos = 0
    /\ result = <<>>
    /\ last_token = "None"
    /\ pc = "lex"
    /\ err = NoError
    /\ toks = <<>>
    /\ blk = <<>>
    /\ pass = 1
    /\ first = NoFirst

\* one turn of the loop on a token that is not a block-string delimiter,
\* minify.rs:44-58
EmitToken ==
    LET t == LexerNext(input, pos)
    IN  /\ pc = "lex"
        /\ t.kind \notin {"Eof", "Err", "BlockStringDelimiter"}
        /\ result' = result \o Spacing(t.kind, last_token) \o Emitted(input, t)
        /\ pos' = CursorAfter(input, t)
        /\ last_token' = t.kind
        /\ toks' = Append(toks, TokenRecord(input, t))
        /\ UNCHANGED <<input, pc, err, blk, pass, first>>

\* one turn of the loop on a block-string delimiter, minify.rs:55 with
\* parse_block_string, lexer.rs:85-114
EmitBlockString ==
    LET t == LexerNext(input, pos)
    IN  /\ pc = "lex"
        /\ t.kind = "BlockStringDelimiter"
        /\ result' = result \o Spacing(t.kind, last_token) \o Emitted(input, t)
        /\ pos' = CursorAfter(input, t)
        /\ last_token' = t.kind
        /\ toks' = Append(toks, TokenRecord(input, t))
        /\ blk' = Append(blk, ScanRecord(input, t.end))
        /\ UNCHANGED <<input, pc, err, pass, first>>

\* Err(e) => return Err(e), minify.rs:47: the buffer is dropped
ReturnErr ==
    LET t == LexerNext(input, pos)
    IN  /\ pc = "lex"
        /\ t.kind = "Err"
        /\ pc' = "err"
        /\ err' = ReturnedError(t)
        /\ result' = <<>>
        /\ pos' = t.start
        /\ UNCHANGED <<input, last_token, toks, blk, pass, first>>

\* lexer.next() is None: Ok(result), minify.rs:61
ReturnOk ==
    LET t == LexerNext(input, pos)
    IN  /\ pc = "lex"
        /\ t.kind = "Eof"
        /\ pc' = "ok"
        /\ pos' = t.end
        /\ UNCHANGED <<input, result, last_token, err, toks, blk, pass, first>>

\* the caller minifies the output again: minify(minify(D))
Reminify ==
    /\ pc = "ok"
    /\ pass = 1
    /\ input' = result
    /\ pos' = 0
    /\ result' = <<>>
    /\ last_token' = "None"
    /\ pc' = "lex"
    /\ err' = NoError
    /\ toks' = <<>>
    /\ blk' = <<>>
    /\ pass' = 2
    /\ first' = [ok |-> TRUE, out |-> result, toks |-> toks, input |-> input]

Next == EmitToken \/ EmitBlockString \/ ReturnErr \/ ReturnOk \/ Reminify

\* --------------------------------------------------- inputs and specifications

\* all texts over the alphabet A of length at most n
Strs(A, n) == UNION {[1 .. k -> A] : k \in 0 .. n}

RECURSIVE Flatten(_)
Flatten(ss) == IF ss = <<>> THEN <<>> ELSE Head(ss) \o Flatten(Tail(ss))

\* documents made of at most n pieces, each after one of the gaps
Documents(Gaps, Pieces, n) ==
    {Flatten([i \in 1 .. 2 * Len(f) |->
                 IF i % 2 = 1 THEN f[(i + 1) \div 2][1] ELSE f[i \div 2][2]]) :
        f \in UNION {[1 .. k -> Gaps \X Pieces] : k \in 0 .. n}}

MaxPieces == 3
MaxPairPieces == 2
MaxStrLen == 4
MaxBody == 4
MaxLines == 3
MaxIgnLen == 4
MaxIndent == 2
MaxPrintPieces == 5

BlockA == TripleQuoteText \o <<"a">> \o TripleQuoteText

\* a punctuator, a variable, a name, a number, a string with a line break, a
\* block string, an empty piece, and a character no pattern matches
TokenPieces ==
    {<<>>, <<"{">>, <<"$", "a">>, <<"a">>, <<"1">>, <<QUOTE, LF, QUOTE>>, BlockA, <<"%">>}

\* one piece of every token kind of lexer.rs:17-81, and a character no pattern
\* matches
KindPieces ==
    {<<c>> : c \in {"{", "}", "(", ")", "[", "]", ":", "=", "!", "?", "&", "|", "%"}}
    \cup {<<".", ".", ".">>, <<"$", "a">>, <<"@", "d">>, <<"a">>, <<"1">>,
          <<"-", "1">>, <<"1", ".", "5">>, TrueText, <<QUOTE, QUOTE>>, BlockA}

TokenInputs == Documents({<<>>, <<SP>>}, TokenPieces, MaxPieces)

PairInputs == Documents({<<>>, <<SP>>}, KindPieces, MaxPairPieces)

\* a text over quote, backslash, line breaks and a letter, alone, after a
\* block string, or after an unclosed one
StrInputs ==
    {pre \o s : pre \in {<<>>, BlockA \o <<SP>>, <<"a", LF>>},
                s \in Strs({QUOTE, BACKSLASH, LF, CR, "a"}, MaxStrLen)}

\* a block string with every body over the characters its lexer tells apart,
\* closed, closed and followed by a name, or left open
BlkInputs ==
    {TripleQuoteText \o b \o post :
        b \in Strs({QUOTE, BACKSLASH, LF, CR, SP, "a"}, MaxBody),
        post \in {<<>>, TripleQuoteText, TripleQuoteText \o <<"a">>}}

\* a block string whose body is at most MaxLines lines, blank or not, with and
\* without indentation and trailing spaces
BodyLines ==
    {<<>>, <<SP>>, <<SP, SP>>, <<"a">>, <<SP, "a">>, <<SP, SP, "a">>, <<"a", SP>>}

DedentInputs ==
    {TripleQuoteText \o Join(ls) \o post :
        ls \in UNION {[1 .. k -> BodyLines] : k \in 0 .. MaxLines},
        post \in {<<>>, TripleQuoteText, TripleQuoteText \o <<"a">>,
                  TripleQuoteText \o <<QUOTE>>}}

\* every text over the ignored characters, a name and a brace, alone or after
\* a block string, and a text with a character no pattern matches
IgnInputs ==
    {pre \o s : pre \in {<<>>, BlockA},
                s \in Strs({SP, ",", "#", LF, "a", "{"}, MaxIgnLen)}
    \cup {<<"a", ",", "%">>}

\* a block string whose body is made of at most MaxPrintPieces pieces: a quote,
\* a backslash, an escaped triple quote, a line feed, a space; closed or left
\* open
PrintPieces ==
    {<<QUOTE>>, <<BACKSLASH>>, <<BACKSLASH>> \o TripleQuoteText, <<LF>>, <<SP>>}

EscInputs ==
    {TripleQuoteText \o Flatten(f) \o post :
        f \in UNION {[1 .. k -> PrintPieces] : k \in 0 .. MaxPrintPieces},
        post \in {<<>>, TripleQuoteText}}

PrintInputs == EscInputs \cup DedentInputs

Init == \E s \in TokenInputs : Start(s)
InitPrint == \E s \in PrintInputs : Start(s)
InitIgn == \E s \in IgnInputs : Start(s)
InitPairs == \E s \in PairInputs : Start(s)
InitStr == \E s \in StrInputs : Start(s)
InitBlk == \E s \in BlkInputs : Start(s)
InitDedent == \E s \in DedentInputs : Start(s)

Spec == Init /\ [][Next]_vars
SpecIgn == InitIgn /\ [][Next]_vars
SpecPrint == InitPrint /\ [][Next]_vars
SpecPairs == InitPairs /\ [][Next]_vars
SpecStr == InitStr /\ [][Next]_vars
SpecBlk == InitBlk /\ [][Next]_vars
SpecDedent == InitDedent /\ [][Next]_vars

\* the state is well formed; the step-wise run agrees with minify as a function
TypeOK ==
    /\ pc \in {"lex", "ok", "err"}
    /\ pass \in {1, 2}
    /\ pos \in 0 .. Len(input)
    /\ pc = "ok" => minify(input) = [ok |-> TRUE, out |-> result, err |-> NoError]
    /\ pc = "err" => minify(input) = [ok |-> FALSE, out |-> <<>>, err |-> err]

\* ------------------------------------------------------------------- claims

\* kind and value of every token of a run, in order
KindsAndLiterals(ts) == [i \in 1 .. Len(ts) |-> <<ts[i].kind, ts[i].lit>>]

\* C1: whenever minify(D) is Ok, minify(minify(D)) is Ok and equals minify(D).
C1_Idempotence ==
    (pass = 2 /\ pc # "lex") => (pc = "ok" /\ result = first.out)

\* C2: whenever minify(D) is Ok, tokenizing minify(D) yields the same sequence
\* of (kind, literal) pairs as tokenizing D: no two tokens fuse, none splits.
C2_LexicalEquivalence ==
    (pass = 2 /\ pc # "lex") =>
        (pc = "ok" /\ KindsAndLiterals(toks) = KindsAndLiterals(first.toks))

\* the punctuators as the claim lists them
ClaimPunctuators ==
    {"BraceOpen", "BraceClose", "ParenOpen", "ParenClose", "BracketOpen",
     "BracketClose", "Colon", "Equals", "Exclamation", "Question", "Ellipsis",
     "Ampersand", "Pipe", "Variable", "Directive"}

\* the text between token i and token i + 1 of the text being tokenized
GapAfter(i) == Slice(input, toks[i].end, toks[i + 1].start)

\* C3 as stated: in every output of minify (the text call 2 tokenizes), two
\* adjacent non-punctuators are separated by exactly one space and two
\* adjacent punctuators by nothing.
C3_NoFusion ==
    pass = 2 =>
        \A i \in 1 .. Len(toks) - 1 :
            /\ (toks[i].kind \notin ClaimPunctuators /\ toks[i + 1].kind \notin ClaimPunctuators)
                  => GapAfter(i) = <<SP>>
            /\ (toks[i].kind \in ClaimPunctuators /\ toks[i + 1].kind \in ClaimPunctuators)
                  => GapAfter(i) = <<>>

\* C3 amended: as C3, except that a variable or a directive followed by an
\* ellipsis is separated from it by exactly one space.
C3_NoFusionAmended ==
    pass = 2 =>
        \A i \in 1 .. Len(toks) - 1 :
            /\ (toks[i].kind \notin ClaimPunctuators /\ toks[i + 1].kind \notin ClaimPunctuators)
                  => GapAfter(i) = <<SP>>
            /\ (toks[i].kind \in ClaimPunctuators /\ toks[i + 1].kind \in ClaimPunctuators)
                  => GapAfter(i) =
                        IF toks[i].kind \in {"Variable", "Directive"}
                           /\ toks[i + 1].kind = "Ellipsis"
                        THEN <<SP>> ELSE <<>>

\* an output in which a directive is followed by an ellipsis, and the source
\* had no space between them
C3_Witness ==
    /\ pass = 2
    /\ pc = "ok"
    /\ first.input = <<"@", "d", ".", ".", ".">>
    /\ Len(toks) = 2
    /\ toks[1].kind = "Directive"
    /\ toks[2].kind = "Ellipsis"

\* the body text of scan r: what was consumed, without the closing delimiter
BodyText(r) ==
    Slice(input, r.body, r.body + r.bump - (IF r.closed THEN 3 ELSE 0))

\* the text parse_block_string returns for body text b, closed as scan r was
Reprinted(b, r) ==
    parse_block_string(TripleQuoteText \o b \o (IF r.closed THEN TripleQuoteText ELSE <<>>), 3)

\* blank lines: nothing, spaces, a tab
BlankLines == {<<>>, <<SP>>, <<SP, SP>>, <<TAB>>}

\* b with n copies of c put in after every line break
RECURSIVE IndentRest(_, _, _, _)
IndentRest(b, q, n, c) ==
    IF q >= Len(b) THEN <<>>
    ELSE IF b[q + 1] = LF \/ (b[q + 1] = CR /\ At(b, q + 1) # LF)
         THEN <<b[q + 1]>> \o [i \in 1 .. n |-> c] \o IndentRest(b, q + 1, n, c)
    ELSE <<b[q + 1]>> \o IndentRest(b, q + 1, n, c)

\* the first line of b is blank: only spaces and tabs up to the first line
\* break, or to the end
RECURSIVE FirstLineBlank(_, _)
FirstLineBlank(b, q) ==
    IF q >= Len(b) \/ b[q + 1] \in {LF, CR} THEN TRUE
    ELSE b[q + 1] \in {SP, TAB} /\ FirstLineBlank(b, q + 1)

TrailingBlankInvariant(r) ==
    \A w \in BlankLines : Reprinted(BodyText(r) \o <<LF>> \o w, r) = r.printed

IndentInvariant(r) ==
    \A n \in 1 .. MaxIndent : \A c \in {SP, TAB} :
        Reprinted(IndentRest(BodyText(r), 0, n, c), r) = r.printed

\* C4 as stated: a blank line added at the start or at the end of the content
\* of a block string does not change the text emitted for it, nor do N columns
\* of indentation added to every line after the first.
C4_DedentInvariance ==
    \A k \in 1 .. Len(blk) :
        /\ TrailingBlankInvariant(blk[k])
        /\ IndentInvariant(blk[k])
        /\ \A w \in BlankLines :
              Reprinted(w \o <<LF>> \o BodyText(blk[k]), blk[k]) = blk[k].printed

\* C4 amended: as C4, a blank line added at the start only when the first line
\* of the content is itself blank.
C4_DedentInvarianceAmended ==
    \A k \in 1 .. Len(blk) :
        /\ TrailingBlankInvariant(blk[k])
        /\ IndentInvariant(blk[k])
        /\ FirstLineBlank(BodyText(blk[k]), 0) =>
              \A w \in BlankLines :
                  Reprinted(w \o <<LF>> \o BodyText(blk[k]), blk[k]) = blk[k].printed

\* a block string with a blank first line, an indented second line and a less
\* indented third has been dedented and printed
C4_Witness ==
    /\ pass = 1
    /\ Len(blk) = 1
    /\ blk[1].closed
    /\ blk[1].lines = << <<>>, <<SP, SP, "a">>, <<SP, "a">> >>
    /\ blk[1].printed = TripleQuoteText \o <<SP, "a", LF, "a">> \o TripleQuoteText
    /\ FirstLineBlank(BodyText(blk[1]), 0)

\* a double-quoted literal read without the lexer: from offset q inside it, the
\* offset after its closing quote (the first quote no backslash escapes), or 0
\* when it is never closed
RECURSIVE QuotedEnd(_, _)
QuotedEnd(s, q) ==
    IF q >= Len(s) THEN 0
    ELSE IF s[q + 1] = QUOTE THEN q + 1
    ELSE IF s[q + 1] = BACKSLASH
         THEN IF q + 1 < Len(s) THEN QuotedEnd(s, q + 2) ELSE 0
    ELSE QuotedEnd(s, q + 1)

\* from offset q inside a closed literal: a backslash that begins an escape is
\* directly followed by a line feed
RECURSIVE EscapesLineFeed(_, _)
EscapesLineFeed(s, q) ==
    IF q >= Len(s) \/ s[q + 1] = QUOTE THEN FALSE
    ELSE IF s[q + 1] = BACKSLASH
         THEN At(s, q + 1) = LF \/ EscapesLineFeed(s, q + 2)
    ELSE EscapesLineFeed(s, q + 1)

\* minify has returned the error met at pos, and what stands at pos is a closed
\* double-quoted literal (not a block-string delimiter) with a raw CR or LF
\* between its quotes
ErrorAtBrokenLiteral ==
    /\ pc = "err"
    /\ At(input, pos) = QUOTE
    /\ ~StartsWithAt(input, pos, TripleQuoteText)
    /\ QuotedEnd(input, pos + 1) > 0
    /\ \E i \in pos + 2 .. QuotedEnd(input, pos + 1) - 1 : input[i] \in {LF, CR}

\* C5 as stated: when the first error of the scan is a double-quoted literal
\* with a raw CR or LF between its quotes, minify returns UnterminatedString(k),
\* k the offset of the opening quote in the whole input.
C5_UnterminatedOffset ==
    ErrorAtBrokenLiteral => err = UnterminatedString(pos)

\* C5 amended: as C5 when no backslash of the literal is directly followed by a
\* line feed; when one is, the string pattern does not match and minify returns
\* UnknownToken.
C5_UnterminatedOffsetAmended ==
    ErrorAtBrokenLiteral =>
        err = IF EscapesLineFeed(input, pos + 1) THEN UnknownToken
              ELSE UnterminatedString(pos)

\* the literal with the line break comes after a block string, so the cursor
\* was advanced by the block-string scan, and its offset is reported
C5_Witness ==
    /\ ErrorAtBrokenLiteral
    /\ pass = 1
    /\ Len(blk) = 1
    /\ pos > blk[1].body + blk[1].bump
    /\ err = UnterminatedString(pos)

\* the first error item of the outer tokenizer scanning s from p, block-string
\* bodies skipped; NoError when it reaches the end
RECURSIVE FirstError(_, _)
FirstError(s, p) ==
    LET t == LexerNext(s, p)
    IN  IF t.kind = "Eof" THEN NoError
        ELSE IF t.kind = "Err" THEN t.err
        ELSE FirstError(s, CursorAfter(s, t))

\* C6: minify returns Err(e) exactly when the outer tokenizer yields an error
\* item, e is the first one and no output comes with it; otherwise it returns Ok.
C6_FirstErrorOrOk ==
    /\ pc = "err" =>
          /\ FirstError(input, 0) # NoError
          /\ err = FirstError(input, 0)
          /\ result = <<>>
    /\ pc = "ok" => (FirstError(input, 0) = NoError /\ err = NoError)
    /\ pc = "lex" => \A i \in 1 .. Len(toks) : toks[i].kind # "Err"

\* an unterminated string is returned after two tokens, an unbalanced brace
\* among them, had been written to the buffer
C6_Witness ==
    /\ pass = 1
    /\ pc = "err"
    /\ err.kind = "UnterminatedString"
    /\ Len(toks) = 2
    /\ toks[1].kind = "BraceOpen"
    /\ result = <<>>

\* the tokens of s from p as (kind, literal) pairs, or <<"Err">> at the end
\* when the scan meets an error
RECURSIVE TokensFrom(_, _)
TokensFrom(s, p) ==
    LET t == LexerNext(s, p)
    IN  IF t.kind = "Eof" THEN <<>>
        ELSE IF t.kind = "Err" THEN << <<"Err">> >>
        ELSE << <<t.kind, Literal(s, t)>> >> \o TokensFrom(s, CursorAfter(s, t))

\* runs of ignored characters: white space, commas, comments
IgnoredRuns ==
    {<<SP>>, <<TAB>>, <<LF>>, <<CR>>, <<",">>, <<"#">>, <<"#", "c", LF>>, <<",", SP, LF>>}

\* s with the run g put in at offset b
Insert(s, b, g) == Slice(s, 0, b) \o g \o Slice(s, b, Len(s))

\* the offsets of the text that lie before, between or after its tokens
Boundaries ==
    {b \in 0 .. Len(input) : \A i \in 1 .. Len(toks) : ~(toks[i].start < b /\ b < toks[i].end)}

\* every character of s is white space or a comma or lies in a comment
RECURSIVE OnlyIgnored(_, _, _)
OnlyIgnored(s, p, inComment) ==
    IF p >= Len(s) THEN TRUE
    ELSE IF inComment
         THEN OnlyIgnored(s, p + 1, s[p + 1] \notin {CR, LF})
    ELSE /\ s[p + 1] \in Whitespace \cup {",", "#"}
         /\ OnlyIgnored(s, p + 1, s[p + 1] = "#")

\* C7: an error-free text and the same text with one more run of ignored
\* characters before, between or after its tokens (same tokens, same literals,
\* same block-string bodies) have the same output; a text of ignored characters
\* only has the empty output.
C7_IgnoredNeverMatter ==
    /\ (pc = "ok" /\ pass = 1) =>
          \A b \in Boundaries : \A g \in IgnoredRuns :
              TokensFrom(Insert(input, b, g), 0) = KindsAndLiterals(toks)
                  => minify(Insert(input, b, g)) = [ok |-> TRUE, out |-> result, err |-> NoError]
    /\ (pc # "lex" /\ OnlyIgnored(input, 0, FALSE)) => (pc = "ok" /\ result = <<>>)

\* a text whose tokens are parted by a comment and a line feed has been
\* minified, and putting a space between them leaves the tokens as they are
C7_Witness ==
    /\ pc = "ok"
    /\ pass = 1
    /\ input = <<"a", "#", LF, "a">>
    /\ result = <<"a", SP, "a">>
    /\ 1 \in Boundaries
    /\ TokensFrom(Insert(input, 1, <<SP>>), 0) = KindsAndLiterals(toks)

\* C8: nothing in a block-string scan can panic: the cursor advance is at most
\* the unconsumed remainder; a line is split at an index that is at most its
\* length, also when the common indent is still usize::MAX; both drain ranges
\* lie within the line sequence.
C8_NoPanic ==
    \A k \in 1 .. Len(blk) :
        LET ls == blk[k].lines
            ci == common_indent(ls)
        IN  /\ blk[k].bump <= blk[k].remainder
            /\ NonBlankIdx(ls) # {} =>
                  /\ \A j \in 2 .. Len(ls) : SplitsLine(ls[j], ci) => ci <= Len(ls[j])
                  /\ first_non_empty_line(ls) <= Len(ls)
                  /\ last_non_empty_line(ls) + 1 - first_non_empty_line(ls)
                        <= Len(ls) - first_non_empty_line(ls)

\* a block string whose only non-blank line is the first, so the common indent
\* keeps its initial value, has been dedented to that line
C8_Witness ==
    /\ Len(blk) = 1
    /\ Len(blk[1].lines) = 2
    /\ NonBlankIdx(blk[1].lines) = {0}
    /\ Len(blk[1].lines[2]) = 2
    /\ common_indent(blk[1].lines) = USIZE_MAX
    /\ blk[1].dedented = <<blk[1].lines[1]>>

\* the closing delimiter read without the block lexer: from offset q, the offset
\* of the first triple quote that is not the tail of a backslash + triple quote,
\* or -1 when there is none
RECURSIVE FirstClosingDelimiter(_, _)
FirstClosingDelimiter(s, q) ==
    IF q >= Len(s) THEN -1
    ELSE IF StartsWithAt(s, q, <<BACKSLASH>> \o TripleQuoteText)
         THEN FirstClosingDelimiter(s, q + 4)
    ELSE IF StartsWithAt(s, q, TripleQuoteText) THEN q
    ELSE FirstClosingDelimiter(s, q + 1)

\* C9: a block-string scan consumes the text up to and including the first
\* unescaped closing delimiter and the outer tokenizer resumes right after it,
\* so no outer token starts in the body; without a closing delimiter it
\* consumes the whole remainder, nothing errs, and minify returns Ok with the
\* re-printed literal, closing delimiter included, at the end of the output.
C9_ScanConsumesLiteral ==
    \A k \in 1 .. Len(blk) :
        LET b == blk[k].body
            c == FirstClosingDelimiter(input, b)
        IN  /\ blk[k].closed = (c >= 0)
            /\ blk[k].closed => blk[k].bump = c + 3 - b
            /\ ~blk[k].closed =>
                  /\ blk[k].bump = blk[k].remainder
                  /\ pc # "err"
                  /\ pc = "ok" => EndsWith(result, blk[k].printed)
                  /\ EndsWith(blk[k].printed, TripleQuoteText)
            /\ \A i \in 1 .. Len(toks) :
                  ~(b <= toks[i].start /\ toks[i].start < b + blk[k].bump)
            /\ (pc = "lex" /\ k = Len(blk) /\ last_token = "BlockStringDelimiter")
                  => pos = b + blk[k].bump

\* a block string whose body is an escaped triple quote has been consumed to its
\* closing delimiter and the name after it is the next token
C9_Witness ==
    /\ pass = 1
    /\ input = TripleQuoteText \o <<BACKSLASH>> \o TripleQuoteText
                 \o TripleQuoteText \o <<"a">>
    /\ Len(blk) = 1
    /\ blk[1].closed
    /\ blk[1].bump = 7
    /\ Len(toks) = 2
    /\ toks[2].start = 10

Blank(line) == \A j \in 1 .. Len(line) : line[j] \in {SP, TAB}

\* C10 as stated: the dedent removes every leading and trailing blank line,
\* keeps every blank line between the first and the last non-blank line at its
\* position, and clears each such line to the empty string.
C10_BlankLines ==
    \A k \in 1 .. Len(blk) :
        LET ls == blk[k].lines
            ds == blk[k].dedented
            S == {j \in 1 .. Len(ls) : ~Blank(ls[j])}
        IN  IF S = {} THEN ds = <<>>
            ELSE /\ Len(ds) = Max(S) - Min(S) + 1
                 /\ ~Blank(ds[1])
                 /\ ~Blank(ds[Len(ds)])
                 /\ \A j \in Min(S) .. Max(S) : ~Blank(ls[j]) => ~Blank(ds[j - Min(S) + 1])
                 /\ \A j \in Min(S) .. Max(S) : Blank(ls[j]) => ds[j - Min(S) + 1] = <<>>

\* the least number of leading spaces and tabs among the lines of ls after the
\* first that are not blank; more than any line is long when there is none
IndentOfRest(ls) ==
    LET S == {leading_whitespace(ls[j]) : j \in {i \in 2 .. Len(ls) : ~Blank(ls[i])}}
    IN  IF S = {} THEN USIZE_MAX ELSE Min(S)

\* C10 amended: as C10, except that a blank line between the first and the last
\* non-blank line is cleared to the empty string only when it is no longer than
\* the common indent; a longer one keeps the characters after its first
\* common-indent ones.
C10_BlankLinesAmended ==
    \A k \in 1 .. Len(blk) :
        LET ls == blk[k].lines
            ds == blk[k].dedented
            S == {j \in 1 .. Len(ls) : ~Blank(ls[j])}
        IN  IF S = {} THEN ds = <<>>
            ELSE /\ Len(ds) = Max(S) - Min(S) + 1
                 /\ ~Blank(ds[1])
                 /\ ~Blank(ds[Len(ds)])
                 /\ \A j \in Min(S) .. Max(S) : ~Blank(ls[j]) => ~Blank(ds[j - Min(S) + 1])
                 /\ \A j \in Min(S) .. Max(S) : Blank(ls[j]) =>
                       ds[j - Min(S) + 1] =
                           IF Len(ls[j]) <= IndentOfRest(ls) THEN <<>>
                           ELSE SubSeq(ls[j], IndentOfRest(ls) + 1, Len(ls[j]))

\* a blank line of two spaces between two non-blank lines, the common indent
\* being one: the dedent keeps it as one space
C10_Witness ==
    /\ Len(blk) = 1
    /\ blk[1].lines = << <<"a">>, <<SP, SP>>, <<SP, "a">> >>
    /\ blk[1].dedented = << <<"a">>, <<SP>>, <<"a">> >>

\* the lines read back from a printed literal: the block-string scan from the
\* offset after its opening delimiter, then the dedent (lexer.rs:86-112)
Rescanned(lit) == dedent_block_lines_mut(RawLines(lit, 3))

\* C11: for every line sequence L the dedent step produces, the literal that
\* print_block_string emits for L joined with newlines starts with a block
\* string delimiter, is consumed whole by the block-string scan, and scans and
\* dedents to L again; re-printing the re-scanned literal gives the same text,
\* and so does minify of the literal alone.
C11_ReprintRoundTrip ==
    \A k \in 1 .. Len(blk) :
        LET L == blk[k].dedented
            lit == print_block_string(Join(L))
            t == LexerNext(lit, 0)
            r == ScanBlock(lit, 3, <<>>, <<>>)
        IN  /\ lit = blk[k].printed
            /\ t.kind = "BlockStringDelimiter" /\ t.start = 0 /\ t.end = 3
            /\ r.closed /\ r.end = Len(lit)
            /\ Rescanned(lit) = L
            /\ parse_block_string(lit, 3) = lit
            /\ minify(lit) = [ok |-> TRUE, out |-> lit, err |-> NoError]

\* a block string whose second line is indented and ends with a quote has been
\* printed with the forced leading newline and the kept trailing newline
C11_Witness ==
    /\ pc = "ok"
    /\ pass = 1
    /\ Len(blk) = 1
    /\ blk[1].dedented = << <<QUOTE>>, <<SP, QUOTE>> >>
    /\ blk[1].printed = TripleQuoteText \o <<LF, QUOTE, LF, SP, QUOTE, LF>> \o TripleQuoteText
    /\ Rescanned(blk[1].printed) = blk[1].dedented

====
